---- MODULE Spec2Model ----
(***************************************************************************)
(* L2CAP signaling core of bluestar_host (src/bluestar_host/src/l2cap.rs): *)
(* the shared identifier / channel-ID allocators, the classic signaling    *)
(* PDU encoder and the per-channel state machine.                          *)
(***************************************************************************)
EXTENDS Integers, Sequences, FiniteSets, TLC

(***************************************************************************)
(* Program constants.                                                      *)
(***************************************************************************)
\* const L2CAP_DEFAULT_MTU: u16 = 625
L2CAP_DEFAULT_MTU == 625
\* AtomicUsize::new(0x40): first dynamic CID
CID_INIT == 64
\* AtomicUsize::new(1): first signaling identifier
SIG_INIT == 1
\* 0xffff: the CID at which get_next_loacl_cid restarts
CID_LAST == 65535
\* 0xff: the identifier at which get_next_sig_id restarts
SIG_LAST == 255
\* [0 as u8; 200]: capacity of the encode buffer
ACL_BUFFER_LEN == 200

(***************************************************************************)
(* Bounds of the model.                                                    *)
(***************************************************************************)
\* channel objects alive at once
MaxChannels == 2
\* longest short option byte string handed to the encoder
MaxOptLen == 2
\* sequential get_next_sig_id calls (more than two cycles of 255)
MaxSigCalls == 515
\* sequential get_next_loacl_cid calls (more than one cycle of 65472)
MaxCidCalls == 65476
\* threads sharing the allocators, and allocator calls per thread
NThreads == 2
KCalls == 2
\* channels created in the CID-reuse scenario (more than the 65472 dynamic CIDs)
MaxCreated == 65474

(***************************************************************************)
(* Enumerations.                                                           *)
(***************************************************************************)
State == {"Closed", "WaitConnect", "WaitConnectRsp", "Config",
          "WatiDisconnect", "WillSendConnectReq"}

Substate == {"WaitConfig", "WaitSendConfig", "WaitConfigReqRsp",
             "WaitConfigRsp", "WaitConfigReq", "WaitIndFinalRsp"}

SignalingCommand ==
    {"CommandRejectRsp", "ConnectionReq", "ConnectionRsp", "ConfigurationReq",
     "ConfigurationRsp", "DisconnectionReq", "DisconnectionRsp", "EchoReq",
     "EchoRsp", "InformationReq", "InformationRsp",
     "ConnectionParameterUpdateReq", "ConnectionParameterUpdateRsp",
     "LeCreditBasedConnectionReq", "LeCreditBasedConnectionRsp",
     "FlowControlCreditInd", "CreditBasedConnectionReq",
     "CreditBasedConnectionRsp", "CreditBasedReconnectionReq",
     "CreditBasedReconnectionRsp"}

\* `cmd as u8`: the enum discriminants (0x01.., then 0x12..)
CmdCode(cmd) ==
    CASE cmd = "CommandRejectRsp"             -> 1
      [] cmd = "ConnectionReq"                -> 2
      [] cmd = "ConnectionRsp"                -> 3
      [] cmd = "ConfigurationReq"             -> 4
      [] cmd = "ConfigurationRsp"             -> 5
      [] cmd = "DisconnectionReq"             -> 6
      [] cmd = "DisconnectionRsp"             -> 7
      [] cmd = "EchoReq"                      -> 8
      [] cmd = "EchoRsp"                      -> 9
      [] cmd = "InformationReq"               -> 10
      [] cmd = "InformationRsp"               -> 11
      [] cmd = "ConnectionParameterUpdateReq" -> 18
      [] cmd = "ConnectionParameterUpdateRsp" -> 19
      [] cmd = "LeCreditBasedConnectionReq"   -> 20
      [] cmd = "LeCreditBasedConnectionRsp"   -> 21
      [] cmd = "FlowControlCreditInd"         -> 22
      [] cmd = "CreditBasedConnectionReq"     -> 23
      [] cmd = "CreditBasedConnectionRsp"     -> 24
      [] cmd = "CreditBasedReconnectionReq"   -> 25
      [] cmd = "CreditBasedReconnectionRsp"   -> 26

\* RejectReason::CommandNotUnderstood as u16
RejectReason_CommandNotUnderstood == 0
\* ConfigurationResult::Successful as u16
ConfigurationResult_Successful == 0

(***************************************************************************)
(* Integer conversions and byte helpers.                                   *)
(***************************************************************************)
\* `x as u8`
AsU8(x) == x % 256
\* `x as u16`
AsU16(x) == x % 65536

\* mutant: the high octet shifted by 16 instead of 8
set_u16_le_WrongShift(buf, off, v) ==
    [buf EXCEPT ![off + 1] = AsU8(v), ![off + 2] = AsU8(v \div 65536)]

\* set_u16_le(&mut buf[off..off+2], v); buf is 1-indexed here, off is the
\* 0-based octet offset of the source
set_u16_le(buf, off, v) ==
    [buf EXCEPT ![off + 1] = AsU8(v), ![off + 2] = AsU8(v \div 256)]

\* get_u16_le(&buf[off..off+2])
get_u16_le(buf, off) == AsU16(buf[off + 1] + AsU16(buf[off + 2] * 256))

\* [fill; n]
Filled(n, fill) == [i \in 1..n |-> fill]

(***************************************************************************)
(* Identifier allocator.                                                   *)
(***************************************************************************)
\* mutant: the identifier restarts at 0 instead of 1
SigUpdate_WrapToZero(id, cur) == IF id = SIG_LAST THEN 0 ELSE cur + 1

\* get_next_sig_id, the write that follows the load: `id` is the loaded
\* value, `cur` the counter's value when the store / fetch_add executes
\* mutant: the identifier counter is left where it was
SigUpdate_NoAdvance(id, cur) == IF id = SIG_LAST THEN SIG_INIT ELSE cur

SigUpdate(id, cur) == IF id = SIG_LAST THEN SIG_INIT ELSE cur + 1
\* get_next_sig_id, the value returned: `id as u8`
SigReturn(id) == AsU8(id)

\* mutant: the CID restarts at 0 instead of 0x40
CidUpdate_WrapToZero(cid, cur) == IF cid = 0 \/ cid = CID_LAST THEN 0 ELSE cur + 1

\* get_next_loacl_cid, the write that follows the load
CidUpdate(cid, cur) == IF cid = 0 \/ cid = CID_LAST THEN CID_INIT ELSE cur + 1
\* get_next_loacl_cid, the value returned: `cid as u16`
\* mutant: the value after the increment is returned
CidReturn_PostIncrement(cid) == AsU16(cid + 1)

CidReturn(cid) == AsU16(cid)

(***************************************************************************)
(* Channel.                                                                *)
(***************************************************************************)
NoChannel == [state |-> "none"]

\* Channel::new(psm)
ChannelNew(psm) ==
    [state           |-> "WillSendConnectReq",
     sub_state       |-> "WaitConfig",
     local_cid       |-> 0,
     remote_cid      |-> 0,
     local_mtu       |-> 0,
     remote_mtu      |-> L2CAP_DEFAULT_MTU,
     sig_seq_num     |-> 0,
     psm             |-> psm,
     le_interval_min |-> 0,
     le_interval_max |-> 0,
     le_latency      |-> 0,
     le_timeout      |-> 0]

\* Channel::get_extended_features: features = 0x280
get_extended_features == 640

\* `features & 0x0008_u32 == 0`: bit 3 of the feature mask is clear
FixedChannelsBitClear(features) == (features \div 8) % 2 = 0

(***************************************************************************)
(* Signal codec.                                                           *)
(***************************************************************************)
\* mutant: the check of CID 0x0005 left out
InformationReqGated_OnlyCid1(self) ==
    /\ self.local_cid = 1
    /\ FixedChannelsBitClear(get_extended_features)

\* the two early returns of the InformationReq arm: CID 0x0005, and CID
\* 0x0001 while the Fixed Channels bit of the extended features is clear
InformationReqGated(self) ==
    \/ self.local_cid = 5
    \/ /\ self.local_cid = 1
       /\ FixedChannelsBitClear(get_extended_features)

\* Outcome of one match arm of create_classic_signaling_packet: the buffer
\* and channel after the arm, the CID counter, `len`, and whether the arm
\* returned early.
ArmResult(buf, self, cid, len, gated) ==
    [buf |-> buf, self |-> self, cid |-> cid, len |-> len, gated |-> gated]

\* match cmd { ... } of create_classic_signaling_packet; `b` already has its
\* data length field cleared, `gc` is GLOBAL_LOCAL_CID
EncodeArm(self, b, cmd, gc) ==
    CASE cmd = "CommandRejectRsp" ->
           ArmResult(set_u16_le(b, 4, RejectReason_CommandNotUnderstood),
                     self, gc, 2, FALSE)
      [] cmd = "ConnectionReq" ->
           LET c == CidReturn(gc)
           IN ArmResult(set_u16_le(set_u16_le(b, 4, self.psm), 6, c),
                        [self EXCEPT !.local_cid = c],
                        CidUpdate(gc, gc), 4, FALSE)
      [] cmd = "ConnectionRsp" ->
           ArmResult(set_u16_le(set_u16_le(b, 4, self.remote_cid), 6, self.local_cid),
                     self, gc, 0, FALSE)
      [] cmd = "ConfigurationReq" ->
           ArmResult(set_u16_le(set_u16_le(b, 4, self.remote_cid), 6, 0),
                     self, gc, 0, FALSE)
      [] cmd = "ConfigurationRsp" ->
           ArmResult(set_u16_le(set_u16_le(set_u16_le(b, 4, self.local_cid), 6, 0),
                                8, ConfigurationResult_Successful),
                     self, gc, 0, FALSE)
      [] cmd \in {"DisconnectionReq", "DisconnectionRsp"} ->
           ArmResult(set_u16_le(set_u16_le(b, 4, self.remote_cid), 6, self.local_cid),
                     self, gc, 0, FALSE)
      [] cmd = "InformationReq" ->
           ArmResult(b, self, gc, 0, InformationReqGated(self))
      [] cmd = "ConnectionParameterUpdateReq" ->
           ArmResult(set_u16_le(set_u16_le(set_u16_le(set_u16_le(b,
                         4, self.le_interval_min), 6, self.le_interval_max),
                         8, self.le_latency), 10, self.le_timeout),
                     self, gc, 0, FALSE)
      [] OTHER -> ArmResult(b, self, gc, 0, FALSE)

\* acl_buffer[lo..hi].copy_from_slice(option)
CopyFromSlice(buf, lo, option) ==
    SubSeq(buf, 1, lo) \o option \o SubSeq(buf, lo + Len(option) + 1, Len(buf))

\* Result of an encode: channel, buffer and both counters as the call leaves
\* them, and how it ended ("ok", "gated": early return, "panic": the slice
\* index of the option copy is out of range and the call unwinds).
EncodeResult(self, buf, sig, cid, outcome) ==
    [self |-> self, buf |-> buf, sig |-> sig, cid |-> cid, outcome |-> outcome]

\* Channel::create_classic_signaling_packet(&mut self, acl_buffer, cmd, option)
\* run to completion by one thread; gs, gc are the two global counters.
\* (len + option.len() stays far below 2^16 for every option of the model.)
create_classic_signaling_packet(self, acl_buffer, cmd, option, gs, gc) ==
    LET a == EncodeArm(self, set_u16_le(acl_buffer, 2, 0), cmd, gc)
    IN IF a.gated
       THEN EncodeResult(self, a.buf, gs, gc, "gated")
       ELSE LET id         == SigReturn(gs)
                s2         == [a.self EXCEPT !.sig_seq_num = id]
                b2         == [a.buf EXCEPT ![1] = CmdCode(cmd), ![2] = id]
                gs2        == SigUpdate(gs, gs)
                totoal_len == AsU16(a.len + AsU16(Len(option)))
            IN IF totoal_len + 4 > Len(b2) \/ totoal_len - a.len # Len(option)
               THEN EncodeResult(s2, b2, gs2, a.cid, "panic")
               ELSE EncodeResult(s2,
                        set_u16_le(CopyFromSlice(b2, a.len + 4, option), 2, totoal_len),
                        gs2, a.cid, "ok")

(***************************************************************************)
(* State.                                                                  *)
(***************************************************************************)
VARIABLES
    GLOBAL_LOCAL_CID,    \* static GLOBAL_LOCAL_CID: AtomicUsize
    GLOBAL_SIG_SEQ_NUM,  \* static GLOBAL_SIG_SEQ_NUM: AtomicUsize
    chan,                \* the Channel objects alive, by slot (NoChannel: none)
    acl_buffer,          \* the caller's buffer after a direct encode call
    outcome,             \* how the last encode ended: none / ok / gated / panic
    call,                \* the last call made and the state it started from
    sent,                \* per slot: buffers handed to request() by send_classic_signaling_packet
    lastSent,            \* the last buffer handed to request() that way
    calls,               \* sequential allocator calls made so far
    ret,                 \* value returned by the last sequential allocator call
    tpc,                 \* per thread: idle, or between the load and the write
    tloc,                \* per thread: the value its load returned
    trets,               \* per thread: the values its calls returned
    created              \* channels created so far (CID-reuse scenario)

vars == <<GLOBAL_LOCAL_CID, GLOBAL_SIG_SEQ_NUM, chan, acl_buffer, outcome, call,
          sent, lastSent, calls, ret, tpc, tloc, trets, created>>

Slots   == 1..MaxChannels
Threads == 1..NThreads

\* PSM values handed to Channel::new
PSMs == {0, 4097}

NoCall ==
    [op |-> "none", c |-> 0, cmd |-> "none", option |-> <<>>,
     self0 |-> NoChannel, sig0 |-> 0, cid0 |-> 0, sent0 |-> 0, fill |-> 0]

CallOf(op, c, cmd, option, fill) ==
    [op |-> op, c |-> c, cmd |-> cmd, option |-> option,
     self0 |-> chan[c], sig0 |-> GLOBAL_SIG_SEQ_NUM, cid0 |-> GLOBAL_LOCAL_CID,
     sent0 |-> sent[c], fill |-> fill]

InitRest ==
    /\ acl_buffer = <<>>
    /\ outcome = "none"
    /\ call = NoCall
    /\ sent = [c \in Slots |-> 0]
    /\ lastSent = <<>>
    /\ calls = 0
    /\ ret = 0
    /\ tpc = [t \in Threads |-> "idle"]
    /\ tloc = [t \in Threads |-> 0]
    /\ trets = [t \in Threads |-> <<>>]
    /\ created = 0

\* the statics as initialised, and no Channel constructed yet
Init ==
    /\ GLOBAL_LOCAL_CID = CID_INIT
    /\ GLOBAL_SIG_SEQ_NUM = SIG_INIT
    /\ chan = [c \in Slots |-> NoChannel]
    /\ InitRest

(***************************************************************************)
(* Channel state machine and transport boundary.                           *)
(***************************************************************************)
\* What a send or run leaves behind: the encode result and whether
\* request(&acl_buffer) was reached.
SendResult(r, requested) ==
    [self |-> r.self, buf |-> r.buf, sig |-> r.sig, cid |-> r.cid,
     outcome |-> r.outcome, requested |-> requested]

\* Channel::send_classic_signaling_packet(&mut self, cmd, data)
send_classic_signaling_packet(self, cmd, data, gs, gc) ==
    LET r == create_classic_signaling_packet(
                 self, Filled(ACL_BUFFER_LEN, 0), cmd, data, gs, gc)
    IN SendResult(r, r.outcome # "panic")

\* mutant: the ConnectionReq is sent without the move to WaitConnectRsp
run_without_transition(self, gs, gc) ==
    IF self.state = "WillSendConnectReq"
    THEN send_classic_signaling_packet(self, "ConnectionReq", <<0, 1>>, gs, gc)
    ELSE SendResult(EncodeResult(self, <<>>, gs, gc, "none"), FALSE)

\* Channel::run_for_classic_channel(&mut self) (Channel::run calls only it)
run_for_classic_channel(self, gs, gc) ==
    IF self.state = "WillSendConnectReq"
    THEN send_classic_signaling_packet(
             [self EXCEPT !.state = "WaitConnectRsp"], "ConnectionReq", <<0, 1>>, gs, gc)
    ELSE SendResult(EncodeResult(self, <<>>, gs, gc, "none"), FALSE)

\* the effect of a send or run of channel c on the state
Apply(c, r) ==
    /\ chan' = [chan EXCEPT ![c] = r.self]
    /\ GLOBAL_SIG_SEQ_NUM' = r.sig
    /\ GLOBAL_LOCAL_CID' = r.cid
    /\ outcome' = r.outcome
    /\ sent' = [sent EXCEPT ![c] = IF r.requested THEN @ + 1 ELSE @]
    /\ lastSent' = IF r.requested THEN r.buf ELSE lastSent

\* a ConnectionRsp as the peer sends it for channel ch: code 3, the request's
\* identifier, length 8, destination CID, source CID, result, status
ConnectionRspPdu(ch, result) ==
    <<3, ch.sig_seq_num, 8, 0, 65, 0,
      AsU8(ch.local_cid), AsU8(ch.local_cid \div 256), result, 0, 0, 0>>

\* the `data` handed to confirm / indication: nothing, or a ConnectionRsp
\* with result Successful, Pending or RefusedPSMNotSupported
Inbound(ch) == {<<>>} \cup {ConnectionRspPdu(ch, res) : res \in {0, 1, 2}}

\* slot c is assigned Channel::new(psm); a Channel it held is dropped
Create(c, psm) ==
    /\ chan' = [chan EXCEPT ![c] = ChannelNew(psm)]
    /\ sent' = [sent EXCEPT ![c] = 0]
    /\ call' = CallOf("new", c, "none", <<>>, 0)
    /\ created' = created + 1
    /\ UNCHANGED <<GLOBAL_LOCAL_CID, GLOBAL_SIG_SEQ_NUM, acl_buffer, outcome,
                   lastSent, calls, ret, tpc, tloc, trets>>

\* let channel = Channel::new(psm)
New(c, psm) ==
    /\ chan[c] = NoChannel
    /\ Create(c, psm)

\* channel.confirm(data)
Confirm(c) ==
    /\ chan[c] # NoChannel
    /\ Apply(c, run_for_classic_channel(chan[c], GLOBAL_SIG_SEQ_NUM, GLOBAL_LOCAL_CID))
    /\ \E data \in Inbound(chan[c]) : call' = CallOf("confirm", c, "none", data, 0)
    /\ UNCHANGED <<acl_buffer, calls, ret, tpc, tloc, trets, created>>

\* channel.indication(data)
Indication(c) ==
    /\ chan[c] # NoChannel
    /\ Apply(c, run_for_classic_channel(chan[c], GLOBAL_SIG_SEQ_NUM, GLOBAL_LOCAL_CID))
    /\ \E data \in Inbound(chan[c]) : call' = CallOf("indication", c, "none", data, 0)
    /\ UNCHANGED <<acl_buffer, calls, ret, tpc, tloc, trets, created>>

\* channel.request(data): the body is empty
Request(c) ==
    /\ chan[c] # NoChannel
    /\ \E data \in {<<>>, lastSent} : call' = CallOf("request", c, "none", data, 0)
    /\ UNCHANGED <<GLOBAL_LOCAL_CID, GLOBAL_SIG_SEQ_NUM, chan, acl_buffer, outcome,
                   sent, lastSent, calls, ret, tpc, tloc, trets, created>>

\* channel.response(data): the body is empty
Response(c) ==
    /\ chan[c] # NoChannel
    /\ \E data \in {<<>>, lastSent} : call' = CallOf("response", c, "none", data, 0)
    /\ UNCHANGED <<GLOBAL_LOCAL_CID, GLOBAL_SIG_SEQ_NUM, chan, acl_buffer, outcome,
                   sent, lastSent, calls, ret, tpc, tloc, trets, created>>

Next ==
    \/ \E c \in Slots, psm \in PSMs : New(c, psm)
    \/ \E c \in Slots : Confirm(c)
    \/ \E c \in Slots : Indication(c)
    \/ \E c \in Slots : Request(c)
    \/ \E c \in Slots : Response(c)

Spec == Init /\ [][Next]_vars

\* Channels driven only through confirm and indication by one thread, from
\* allocator states that thread's earlier channels can have left: the initial
\* one and the last of each cycle.
InitDrive ==
    /\ GLOBAL_LOCAL_CID \in {CID_INIT, CID_LAST}
    /\ GLOBAL_SIG_SEQ_NUM \in {SIG_INIT, SIG_LAST}
    /\ chan = [c \in Slots |-> NoChannel]
    /\ InitRest

NextDrive ==
    \/ \E c \in Slots, psm \in PSMs : New(c, psm)
    \/ \E c \in Slots : Confirm(c)
    \/ \E c \in Slots : Indication(c)

SpecDrive == InitDrive /\ [][NextDrive]_vars

(***************************************************************************)
(* The encoder on its own: one call of create_classic_signaling_packet     *)
(* (as tests::test_create_signal_packet makes it) or of                    *)
(* send_classic_signaling_packet, on a channel and allocator state drawn   *)
(* from the sets below.                                                    *)
(***************************************************************************)
\* option byte strings: every string of at most MaxOptLen bytes over two
\* byte values, and three long ones around the buffer's capacity
OptBytes == {17, 238}

ShortOptions == UNION {[1..n -> OptBytes] : n \in 0..MaxOptLen}

LongOptions ==
    {Filled(n, 204) : n \in {ACL_BUFFER_LEN - 8, ACL_BUFFER_LEN - 4, ACL_BUFFER_LEN - 3}}

Options == ShortOptions \cup LongOptions

\* channels handed to the encoder
EncodeChannels ==
    {[ChannelNew(p) EXCEPT !.state = st, !.local_cid = l, !.remote_cid = r,
                           !.sig_seq_num = q,
                           !.le_interval_min = 6, !.le_interval_max = 12,
                           !.le_latency = 1, !.le_timeout = 500] :
        p \in PSMs, st \in {"Config"},
        l \in {0, 1, 5, 64, 4660}, r \in {0, 43981}, q \in {0, 9}}

\* allocator states a single thread reaches: the initial one and the last of
\* each cycle
InitEncode ==
    /\ GLOBAL_LOCAL_CID \in {CID_INIT, CID_LAST}
    /\ GLOBAL_SIG_SEQ_NUM \in {SIG_INIT, SIG_LAST}
    /\ \E ch \in EncodeChannels :
          chan = [c \in Slots |-> IF c = 1 THEN ch ELSE NoChannel]
    /\ InitRest

\* channel.create_classic_signaling_packet(&mut acl_buffer, cmd, option) on a
\* caller's buffer [fill; 200]
EncodeCall ==
    /\ call.op = "none"
    /\ \E cmd \in SignalingCommand, option \in Options, fill \in {0, 170} :
          LET r == create_classic_signaling_packet(
                       chan[1], Filled(ACL_BUFFER_LEN, fill), cmd, option,
                       GLOBAL_SIG_SEQ_NUM, GLOBAL_LOCAL_CID)
          IN /\ chan' = [chan EXCEPT ![1] = r.self]
             /\ GLOBAL_SIG_SEQ_NUM' = r.sig
             /\ GLOBAL_LOCAL_CID' = r.cid
             /\ outcome' = r.outcome
             /\ acl_buffer' = r.buf
             /\ call' = CallOf("encode", 1, cmd, option, fill)
    /\ UNCHANGED <<sent, lastSent, calls, ret, tpc, tloc, trets, created>>

\* channel.send_classic_signaling_packet(cmd, option)
SendCall ==
    /\ call.op = "none"
    /\ \E cmd \in SignalingCommand, option \in Options :
          /\ Apply(1, send_classic_signaling_packet(
                          chan[1], cmd, option, GLOBAL_SIG_SEQ_NUM, GLOBAL_LOCAL_CID))
          /\ call' = CallOf("send", 1, cmd, option, 0)
    /\ UNCHANGED <<acl_buffer, calls, ret, tpc, tloc, trets, created>>

NextEncode == EncodeCall \/ SendCall

SpecEncode == InitEncode /\ [][NextEncode]_vars

(***************************************************************************)
(* The allocators called in sequence by one thread.                        *)
(***************************************************************************)
\* get_next_sig_id()
SigCall ==
    /\ calls < MaxSigCalls
    /\ GLOBAL_SIG_SEQ_NUM' = SigUpdate(GLOBAL_SIG_SEQ_NUM, GLOBAL_SIG_SEQ_NUM)
    /\ ret' = SigReturn(GLOBAL_SIG_SEQ_NUM)
    /\ calls' = calls + 1
    /\ UNCHANGED <<GLOBAL_LOCAL_CID, chan, acl_buffer, outcome, call, sent,
                   lastSent, tpc, tloc, trets, created>>

SpecSigSeq == Init /\ [][SigCall]_vars

\* get_next_loacl_cid()
CidCall ==
    /\ calls < MaxCidCalls
    /\ GLOBAL_LOCAL_CID' = CidUpdate(GLOBAL_LOCAL_CID, GLOBAL_LOCAL_CID)
    /\ ret' = CidReturn(GLOBAL_LOCAL_CID)
    /\ calls' = calls + 1
    /\ UNCHANGED <<GLOBAL_SIG_SEQ_NUM, chan, acl_buffer, outcome, call, sent,
                   lastSent, tpc, tloc, trets, created>>

SpecCidSeq == Init /\ [][CidCall]_vars

(***************************************************************************)
(* The allocators called by several threads: the load and the store /      *)
(* fetch_add of a call are separate atomic steps.                          *)
(***************************************************************************)
Returned(kind, val) == [kind |-> kind, val |-> val]

CallsMade(t) == Len(trets[t])

\* let id = GLOBAL_SIG_SEQ_NUM.load(Relaxed)
SigLoad(t) ==
    /\ tpc[t] = "idle"
    /\ CallsMade(t) < KCalls
    /\ tpc' = [tpc EXCEPT ![t] = "sig"]
    /\ tloc' = [tloc EXCEPT ![t] = GLOBAL_SIG_SEQ_NUM]
    /\ UNCHANGED <<GLOBAL_LOCAL_CID, GLOBAL_SIG_SEQ_NUM, chan, acl_buffer, outcome,
                   call, sent, lastSent, calls, ret, trets, created>>

\* GLOBAL_SIG_SEQ_NUM.store(1) or .fetch_add(1), then return id as u8
SigWrite(t) ==
    /\ tpc[t] = "sig"
    /\ GLOBAL_SIG_SEQ_NUM' = SigUpdate(tloc[t], GLOBAL_SIG_SEQ_NUM)
    /\ trets' = [trets EXCEPT ![t] = Append(@, Returned("sig", SigReturn(tloc[t])))]
    /\ tpc' = [tpc EXCEPT ![t] = "idle"]
    /\ UNCHANGED <<GLOBAL_LOCAL_CID, chan, acl_buffer, outcome, call, sent,
                   lastSent, calls, ret, tloc, created>>

\* let cid = GLOBAL_LOCAL_CID.load(Relaxed)
CidLoad(t) ==
    /\ tpc[t] = "idle"
    /\ CallsMade(t) < KCalls
    /\ tpc' = [tpc EXCEPT ![t] = "cid"]
    /\ tloc' = [tloc EXCEPT ![t] = GLOBAL_LOCAL_CID]
    /\ UNCHANGED <<GLOBAL_LOCAL_CID, GLOBAL_SIG_SEQ_NUM, chan, acl_buffer, outcome,
                   call, sent, lastSent, calls, ret, trets, created>>

\* GLOBAL_LOCAL_CID.store(0x40) or .fetch_add(1), then return cid as u16
CidWrite(t) ==
    /\ tpc[t] = "cid"
    /\ GLOBAL_LOCAL_CID' = CidUpdate(tloc[t], GLOBAL_LOCAL_CID)
    /\ trets' = [trets EXCEPT ![t] = Append(@, Returned("cid", CidReturn(tloc[t])))]
    /\ tpc' = [tpc EXCEPT ![t] = "idle"]
    /\ UNCHANGED <<GLOBAL_SIG_SEQ_NUM, chan, acl_buffer, outcome, call, sent,
                   lastSent, calls, ret, tloc, created>>

NextConc ==
    \/ \E t \in Threads : SigLoad(t)
    \/ \E t \in Threads : SigWrite(t)
    \/ \E t \in Threads : CidLoad(t)
    \/ \E t \in Threads : CidWrite(t)

SpecConc == Init /\ [][NextConc]_vars

\* the same threads, started from allocator states one thread reaches by
\* sequential calls: the initial one, and the one that hands out the value
\* before the last of a cycle
InitConcWrap ==
    /\ GLOBAL_SIG_SEQ_NUM \in {SIG_INIT, SIG_LAST - 1}
    /\ GLOBAL_LOCAL_CID \in {CID_INIT, CID_LAST - 1}
    /\ chan = [c \in Slots |-> NoChannel]
    /\ InitRest

SpecConcWrap == InitConcWrap /\ [][NextConc]_vars

(***************************************************************************)
(* CID reuse: one channel is opened and kept, while a second variable is   *)
(* assigned channel after channel, each once the ConnectionReq of the one  *)
(* before is out.                                                          *)
(***************************************************************************)
\* first the kept channel (slot 1), then, once it holds its CID, the others
ReuseNew(c) ==
    /\ created < MaxCreated
    /\ \/ c = 1 /\ chan[1] = NoChannel
       \/ c = 2 /\ chan[1].state = "WaitConnectRsp"
                /\ chan[2].state \in {"none", "WaitConnectRsp"}
    /\ Create(c, 4097)

\* the new channel's confirm(), which runs it for the first time
ReuseRun(c) ==
    /\ chan[c].state = "WillSendConnectReq"
    /\ Confirm(c)

NextReuse ==
    \/ \E c \in {1, 2} : ReuseNew(c)
    \/ \E c \in {1, 2} : ReuseRun(c)

SpecReuse == Init /\ [][NextReuse]_vars

(***************************************************************************)
(* Properties.                                                             *)
(***************************************************************************)
\* the buffer the last encode or send produced
OutBuf == IF call.op = "encode" THEN acl_buffer ELSE lastSent

\* &acl_buffer[0..len] with len = get_u16_le(&acl_buffer[2..4]) + 4, the PDU
\* as tests::test_create_signal_packet reads it out of the buffer
Pdu(buf) == SubSeq(buf, 1, get_u16_le(buf, 2) + 4)

Encoded == call.op \in {"encode", "send"}

\* C1: from the initial allocator state the k-th sequential get_next_sig_id
\* returns ((k-1) mod 255) + 1 (so 1 follows 0xFF), and never 0.
C1_SigSequence ==
    calls > 0 => /\ ret = ((calls - 1) % 255) + 1
                 /\ ret # 0

\* the call after the one that returned 0xFF has returned 1
C1_Witness == calls = 256 /\ ret = 1 /\ GLOBAL_SIG_SEQ_NUM = 2

\* C2: from the initial allocator state the k-th sequential
\* get_next_loacl_cid returns 0x40 + ((k-1) mod 65472) (so 0x40 follows
\* 0xFFFF), and never a value below 0x40.
C2_CidSequence ==
    calls > 0 => /\ ret = 64 + ((calls - 1) % 65472)
                 /\ ret >= 64

\* the call after the one that returned 0xFFFF has returned 0x40
C2_Witness == calls = 65473 /\ ret = 64 /\ GLOBAL_LOCAL_CID = 65

\* C3: a ConnectionReq encoded with no option bytes, for PSM p with next
\* identifier i and next CID c, is the 8-byte PDU
\* [2, i, 4, 0, p_low, p_high, c_low, c_high] and leaves local_cid = c; the
\* rest of the buffer is as it was.
C3_ConnectionReqPdu ==
    (Encoded /\ call.cmd = "ConnectionReq" /\ call.option = <<>>) =>
        LET p == call.self0.psm
            i == call.sig0
            c == call.cid0
        IN /\ outcome = "ok"
           /\ Pdu(OutBuf) = <<2, i, 4, 0, p % 256, p \div 256, c % 256, c \div 256>>
           /\ SubSeq(OutBuf, 9, ACL_BUFFER_LEN) = Filled(ACL_BUFFER_LEN - 8, call.fill)
           /\ chan[1].local_cid = c
           /\ (p = 0 /\ i = 1 /\ c = 64) => Pdu(OutBuf) = <<2, 1, 4, 0, 0, 0, 64, 0>>

\* the test's case: PSM 0, allocator at its initial state
C3_Witness ==
    /\ call.op = "encode" /\ call.cmd = "ConnectionReq" /\ call.option = <<>>
    /\ call.self0.psm = 0 /\ call.sig0 = 1 /\ call.cid0 = 64
    /\ Pdu(acl_buffer) = <<2, 1, 4, 0, 0, 0, 64, 0>>
    /\ chan[1].local_cid = 64

Ran == call.op \in {"confirm", "indication"}

\* C4: a new channel is in WillSendConnectReq; its first run (through
\* confirm or indication) moves it to WaitConnectRsp and hands exactly one
\* buffer, a ConnectionReq, to request(); a run in any later state hands over
\* nothing and leaves the channel and both allocator counters as they were.
C4_FirstRunThenNoOp ==
    /\ call.op = "new" =>
          /\ chan[call.c].state = "WillSendConnectReq"
          /\ sent[call.c] = 0
    /\ (Ran /\ call.self0.state = "WillSendConnectReq") =>
          /\ chan[call.c].state = "WaitConnectRsp"
          /\ sent[call.c] = 1
          /\ lastSent[1] = CmdCode("ConnectionReq")
          /\ lastSent[2] = chan[call.c].sig_seq_num
    /\ (Ran /\ call.self0.state # "WillSendConnectReq") =>
          /\ chan[call.c] = call.self0
          /\ sent[call.c] = call.sent0
          /\ GLOBAL_SIG_SEQ_NUM = call.sig0
          /\ GLOBAL_LOCAL_CID = call.cid0
    /\ \A c \in Slots : sent[c] <= 1

\* a channel that has sent its ConnectionReq has been run again
C4_Witness ==
    /\ Ran /\ call.self0.state = "WaitConnectRsp"
    /\ chan[call.c].state = "WaitConnectRsp"
    /\ sent[call.c] = 1

\* every value returned so far by an allocator call of the given kind, with
\* the thread and the position of the call
ReturnedBy(kind) ==
    {<<t, k>> \in Threads \X (1..KCalls) :
        k <= Len(trets[t]) /\ trets[t][k].kind = kind}

AllDistinct(kind) ==
    \A x, y \in ReturnedBy(kind) :
        x # y => trets[x[1]][x[2]].val # trets[y[1]][y[2]].val

\* C5 (as claimed): the identifiers returned to the threads by
\* get_next_sig_id, fewer than one cycle in all, are pairwise distinct.
C5_DistinctSigIds == AllDistinct("sig")

\* C6 (as claimed): the CIDs returned to the threads by get_next_loacl_cid,
\* fewer than the dynamic range holds, are pairwise distinct.
C6_DistinctCids == AllDistinct("cid")

\* C7 (as claimed): no two live channels that are not Closed hold the same
\* assigned (non-zero) local_cid.
C7_NoSharedCid ==
    \A c, d \in Slots :
        (/\ c # d
         /\ chan[c] # NoChannel /\ chan[d] # NoChannel
         /\ chan[c].state # "Closed" /\ chan[d].state # "Closed"
         /\ chan[c].local_cid # 0)
        => chan[c].local_cid # chan[d].local_cid


\* the fixed-field byte counts the claim lists per command
C8_FixedLen(cmd) ==
    CASE cmd = "CommandRejectRsp" -> 2
      [] cmd = "ConnectionReq" -> 4
      [] cmd = "ConnectionRsp" -> 4
      [] cmd = "ConfigurationReq" -> 4
      [] cmd = "ConfigurationRsp" -> 6
      [] cmd \in {"DisconnectionReq", "DisconnectionRsp"} -> 4
      [] cmd = "ConnectionParameterUpdateReq" -> 8

C8_Commands ==
    {"CommandRejectRsp", "ConnectionReq", "ConnectionRsp", "ConfigurationReq",
     "ConfigurationRsp", "DisconnectionReq", "DisconnectionRsp",
     "ConnectionParameterUpdateReq"}

\* C8 (as claimed): for each of these commands and every option string that
\* fits the buffer behind the fixed fields, the data length field is the
\* fixed-field byte count plus the option length, and the option bytes lie
\* at octets 4+fixed_len .. 4+fixed_len+option_len.
C8_DataLength ==
    (/\ Encoded
     /\ call.cmd \in C8_Commands
     /\ 4 + C8_FixedLen(call.cmd) + Len(call.option) <= ACL_BUFFER_LEN) =>
        LET fixed == C8_FixedLen(call.cmd)
        IN /\ outcome = "ok"
           /\ get_u16_le(OutBuf, 2) = fixed + Len(call.option)
           /\ SubSeq(OutBuf, 4 + fixed + 1, 4 + fixed + Len(call.option)) = call.option

\* C9 (as claimed): a ConnectionRsp encoded with option bytes has remote_cid
\* at octets 4..5, local_cid at octets 6..7 and the option bytes from octet 8.
C9_ConnectionRspLayout ==
    (/\ Encoded
     /\ call.cmd = "ConnectionRsp"
     /\ call.option # <<>>
     /\ 8 + Len(call.option) <= ACL_BUFFER_LEN) =>
        /\ outcome = "ok"
        /\ get_u16_le(OutBuf, 4) = call.self0.remote_cid
        /\ get_u16_le(OutBuf, 6) = call.self0.local_cid
        /\ SubSeq(OutBuf, 9, 8 + Len(call.option)) = call.option

\* C10: an InformationReq encoded while local_cid is 0x0005 returns early:
\* octets 0 and 1 keep what the buffer held, the data length field is 0, the
\* rest of the buffer is untouched, and the channel and both allocator
\* counters are as before the call.
C10_InformationReqGated ==
    (Encoded /\ call.cmd = "InformationReq" /\ call.self0.local_cid = 5) =>
        /\ outcome = "gated"
        /\ OutBuf[1] = call.fill
        /\ OutBuf[2] = call.fill
        /\ get_u16_le(OutBuf, 2) = 0
        /\ OutBuf = set_u16_le(Filled(ACL_BUFFER_LEN, call.fill), 2, 0)
        /\ chan[1] = call.self0
        /\ GLOBAL_SIG_SEQ_NUM = call.sig0
        /\ GLOBAL_LOCAL_CID = call.cid0

\* the gated encode on a buffer that held 0xAA, with option bytes
C10_Witness ==
    /\ call.op = "encode" /\ call.cmd = "InformationReq"
    /\ call.self0.local_cid = 5 /\ call.self0.sig_seq_num = 9
    /\ call.fill = 170 /\ call.option # <<>>
    /\ outcome = "gated"
    /\ acl_buffer[1] = 170 /\ acl_buffer[3] = 0

\* C11 (as claimed): when the fixed fields and the option bytes of a command
\* do not fit the buffer (4 + fixed_len + option_len > 200), the encode ends
\* in an explicit rejection: it neither completes (with truncated or
\* misplaced options) nor panics.  Stated for the option strings that do not
\* fit whatever the command's fixed fields take (4 + option_len > 200).
C11_OverflowRejected ==
    (/\ Encoded
     /\ call.cmd \in C8_Commands
     /\ 4 + Len(call.option) > ACL_BUFFER_LEN) =>
        outcome \notin {"ok", "panic"}

\* the last call was indication(data) with data a ConnectionRsp carrying the
\* given result, addressed to the channel as it then was
GotConnectionRsp(result) ==
    /\ call.op = "indication"
    /\ call.option = ConnectionRspPdu(call.self0, result)

\* C12 (as claimed): a channel in WaitConnectRsp that receives, through
\* indication, a ConnectionRsp with result Successful is in Config /
\* WaitConfig afterwards.
C12_SuccessToConfig ==
    (GotConnectionRsp(0) /\ call.self0.state = "WaitConnectRsp") =>
        /\ chan[call.c].state = "Config"
        /\ chan[call.c].sub_state = "WaitConfig"

\* C13 (as claimed): a channel in WaitConnectRsp that receives a
\* ConnectionRsp with a refusal result is Closed afterwards, and a confirm or
\* indication on a Closed channel changes nothing and sends nothing.
C13_RefusalToClosed ==
    /\ (GotConnectionRsp(2) /\ call.self0.state = "WaitConnectRsp") =>
          chan[call.c].state = "Closed"
    /\ (Ran /\ call.self0.state = "Closed") =>
          /\ chan[call.c] = call.self0
          /\ sent[call.c] = call.sent0

\* C14 (as claimed): a ConnectionRsp that arrives through indication while
\* the channel is not in WaitConnectRsp is not acted on: the channel's state
\* is unchanged and no PDU is sent.
C14_OutOfSequenceIgnored ==
    (/\ call.op = "indication"
     /\ \E res \in {0, 1, 2} : call.option = ConnectionRspPdu(call.self0, res)
     /\ call.self0.state # "WaitConnectRsp") =>
        /\ chan[call.c].state = call.self0.state
        /\ sent[call.c] = call.sent0

\* the values returned so far by allocator calls of the given kind
ValuesReturned(kind) ==
    {trets[x[1]][x[2]].val : x \in ReturnedBy(kind)}

\* C15 (as claimed): under every interleaving of get_next_sig_id calls, no
\* call returns 0 and GLOBAL_SIG_SEQ_NUM stays within 1..255.
C15_SigNeverZero ==
    /\ 0 \notin ValuesReturned("sig")
    /\ GLOBAL_SIG_SEQ_NUM \in SIG_INIT..SIG_LAST

\* C16 (as claimed): under every interleaving of get_next_loacl_cid calls,
\* every returned CID and GLOBAL_LOCAL_CID stay within 0x0040..0xFFFF.
C16_CidInDynamicRange ==
    /\ ValuesReturned("cid") \subseteq CID_INIT..CID_LAST
    /\ GLOBAL_LOCAL_CID \in CID_INIT..CID_LAST

\* C17 (as claimed): the ConnectionReq a channel emits on its first run has
\* data length 4, and what request() receives after the 4-byte header is the
\* PSM and the newly allocated local CID with no further bytes.
C17_FirstRunPayload ==
    (Ran /\ call.self0.state = "WillSendConnectReq") =>
        LET p == call.self0.psm
            c == chan[call.c].local_cid
        IN /\ get_u16_le(lastSent, 2) = 4
           /\ Pdu(lastSent) = <<2, call.sig0, 4, 0, p % 256, p \div 256, c % 256, c \div 256>>
           /\ SubSeq(lastSent, 9, ACL_BUFFER_LEN) = Filled(ACL_BUFFER_LEN - 8, 0)

\* C19 (as claimed): a gated send of InformationReq does not invoke request()
\* and completes without an error.
C19_GatedSendNotTransmitted ==
    (/\ call.op = "send"
     /\ call.cmd = "InformationReq"
     /\ InformationReqGated(call.self0)) =>
        /\ sent[call.c] = call.sent0
        /\ outcome # "panic"

\* C18: an encode that is not gated moves GLOBAL_SIG_SEQ_NUM one step along
\* its cycle and leaves in sig_seq_num the identifier it wrote in octet 1;
\* a ConnectionReq encode moves GLOBAL_LOCAL_CID one step and stores the CID
\* it took in local_cid, every other command leaves both as they were; no
\* encode changes state, sub_state, remote_cid or psm.
C18_EncodeFrame ==
    Encoded =>
        LET before == call.self0
            after  == chan[call.c]
        IN /\ outcome # "gated" =>
                /\ GLOBAL_SIG_SEQ_NUM =
                       (IF call.sig0 = SIG_LAST THEN SIG_INIT ELSE call.sig0 + 1)
                /\ after.sig_seq_num = call.sig0
                /\ (call.op = "encode" \/ outcome = "ok") =>
                       OutBuf[2] = after.sig_seq_num
           /\ call.cmd = "ConnectionReq" =>
                /\ GLOBAL_LOCAL_CID =
                       (IF call.cid0 = CID_LAST THEN CID_INIT ELSE call.cid0 + 1)
                /\ after.local_cid = call.cid0
           /\ call.cmd # "ConnectionReq" =>
                /\ GLOBAL_LOCAL_CID = call.cid0
                /\ after.local_cid = before.local_cid
           /\ after.state = before.state
           /\ after.sub_state = before.sub_state
           /\ after.remote_cid = before.remote_cid
           /\ after.psm = before.psm

\* a ConnectionReq encoded with both allocators at the last value of their cycle
C18_Witness ==
    /\ call.op = "encode" /\ call.cmd = "ConnectionReq" /\ outcome = "ok"
    /\ call.sig0 = SIG_LAST /\ GLOBAL_SIG_SEQ_NUM = SIG_INIT
    /\ call.cid0 = CID_LAST /\ GLOBAL_LOCAL_CID = CID_INIT
    /\ chan[1].sig_seq_num = SIG_LAST /\ chan[1].local_cid = CID_LAST
    /\ acl_buffer[2] = SIG_LAST

\* C20: for channels driven only through confirm and indication by one
\* thread, a channel in WillSendConnectReq has local_cid = 0 and
\* sig_seq_num = 0, a channel in WaitConnectRsp has local_cid in
\* 0x0040..0xFFFF and sig_seq_num in 1..255, and a confirm or indication on
\* a channel whose local_cid is assigned leaves local_cid and
\* GLOBAL_LOCAL_CID as they were.
C20_StateFieldInvariant ==
    /\ \A c \in Slots :
          /\ chan[c].state = "WillSendConnectReq" =>
                chan[c].local_cid = 0 /\ chan[c].sig_seq_num = 0
          /\ chan[c].state = "WaitConnectRsp" =>
                /\ chan[c].local_cid \in CID_INIT..CID_LAST
                /\ chan[c].sig_seq_num \in SIG_INIT..SIG_LAST
    /\ (Ran /\ call.self0.local_cid # 0) =>
          /\ chan[call.c].local_cid = call.self0.local_cid
          /\ GLOBAL_LOCAL_CID = call.cid0

\* a channel that took the last CID and the last identifier of their cycles
\* has been run again, next to a channel not yet run
C20_Witness ==
    /\ Ran /\ call.self0.local_cid = CID_LAST
    /\ chan[call.c].state = "WaitConnectRsp"
    /\ chan[call.c].local_cid = CID_LAST
    /\ chan[call.c].sig_seq_num = SIG_LAST
    /\ GLOBAL_LOCAL_CID = CID_INIT
    /\ \E d \in Slots : chan[d].state = "WillSendConnectReq"

====
